---- MODULE Spec2Model ----
(***************************************************************************)
(* scachepy: the pickle storage backend (backends.py) and the cache        *)
(* orchestrator (scachepy.py).                                             *)
(*                                                                         *)
(* Strings are modelled as sequences of tokens ("leiden_graph" is          *)
(* <<"leiden", "_graph">>), so that regular-expression matching, substring *)
(* containment and suffix tests are computed and not looked up.            *)
(*                                                                         *)
(* A Python object (a value, a mapping, a whole category) is modelled by   *)
(* the set of its leaves <<path, leaf>>: a scalar v is {<< <<>>, v >>}, an *)
(* empty dict is {<< <<>>, "{}" >>}, a dict holds the leaves of its items  *)
(* with the item's key put in front of their paths.  The empty set is "no  *)
(* such attribute" (hasattr is False).                                     *)
(***************************************************************************)
EXTENDS Integers, Sequences, FiniteSets, TLC

VARIABLES
    adata,   \* the caller's container: category -> object ({} when absent)
    files,   \* the backend directory: file name -> [exists, data]
    last     \* what the most recent operation did and returned

vars == <<adata, files, last>>

----------------------------------------------------------------------------
(* Objects *)

\* v evaluated once, and F applied to its value
With(v, F(_)) == CHOOSE r \in {F(x) : x \in {v}} : TRUE

Atom(a) == {<< <<>>, a >>}
NoneVal == Atom("None")
EmptyDict == Atom("{}")
Absent == {}

\* the key None of a whole-category declaration; a str key is never empty
NoneKey == <<>>

IsMapping(obj) == obj = EmptyDict \/ (obj # {} /\ \A e \in obj : Len(e[1]) > 0)

\* obj.keys()
KeysOf(obj) == {Head(e[1]) : e \in {x \in obj : Len(x[1]) > 0}}

\* obj[k], for k in obj.keys()
GetItem(obj, k) ==
    {<<Tail(e[1]), e[2]>> : e \in {x \in obj : Len(x[1]) > 0 /\ Head(x[1]) = k}}

\* obj[k] = val
SetItem(obj, k, val) ==
    {x \in obj : Len(x[1]) > 0 /\ Head(x[1]) # k}
        \cup {<< <<k>> \o e[1], e[2] >> : e \in val}

\* del obj[k], for k in obj.keys()
DelItem(obj, k) ==
    LET rest == {x \in obj : Len(x[1]) > 0 /\ Head(x[1]) # k}
    IN  IF rest = {} THEN EmptyDict ELSE rest

\* hasattr(obj, attr)
hasattr(obj, attr) == attr \in DOMAIN obj /\ obj[attr] # Absent

----------------------------------------------------------------------------
(* Strings and regular expressions *)

\* s.startswith(p)
StartsWith(s, p) == Len(p) <= Len(s) /\ SubSeq(s, 1, Len(p)) = p

\* s.endswith(p)
EndsWith(s, p) == Len(p) <= Len(s) /\ SubSeq(s, Len(s) - Len(p) + 1, Len(s)) = p

\* sub in s
Contains(s, sub) ==
    \E i \in 0..(Len(s) - Len(sub)) : SubSeq(s, i + 1, i + Len(sub)) = sub

\* A compiled pattern  pre (.+) suf $  is [pre, grp, suf, end]: grp says
\* whether the group is there, end whether the pattern ends in $.
Regex(pre, grp, suf, end) == [pre |-> pre, grp |-> grp, suf |-> suf, end |-> end]

\* the lengths the group (.+) can take for pattern.match(s) to succeed
GroupLens(pat, s) ==
    LET rest == SubSeq(s, Len(pat.pre) + 1, Len(s))
    IN  {n \in 1..Len(rest) :
            /\ StartsWith(SubSeq(rest, n + 1, Len(rest)), pat.suf)
            /\ pat.end => n + Len(pat.suf) = Len(rest)}

\* pattern.match(s) is not None: match anchors at the start of s only
match(pat, s) ==
    /\ StartsWith(s, pat.pre)
    /\ LET rest == SubSeq(s, Len(pat.pre) + 1, Len(s))
       IN  IF pat.grp
           THEN GroupLens(pat, s) # {}
           ELSE StartsWith(rest, pat.suf) /\ (pat.end => rest = pat.suf)

\* pattern.match(s).groups()[0]: the group is greedy
group0(pat, s) ==
    LET lens == GroupLens(pat, s)
        n == CHOOSE m \in lens : \A o \in lens : o <= m
    IN  SubSeq(s, Len(pat.pre) + 1, Len(pat.pre) + n)

----------------------------------------------------------------------------
(* Python key objects, as the code tells them apart by type *)

PyNone == [t |-> "None"]
PyStr(s) == [t |-> "str", s |-> s]
PyTuple(ks) == [t |-> "tuple", ks |-> ks]
PySet(ks) == [t |-> "set", ks |-> ks]
PyPattern(pat) == [t |-> "pattern", pat |-> pat]
\* sentinel = object(): value not found
sentinel == [t |-> "sentinel"]

\* the element of a stored key tuple that a None or str key becomes
Raw(key) == IF key.t = "None" THEN NoneKey ELSE key.s

\* the order in which a category's keys() are enumerated
KeyOrder ==
    << <<"leiden", "_graph">>, <<"louvain", "_graph">>, <<"paga", "_graph">>,
       <<"pca">>, <<"variance">>, <<"X_pca">>, <<"plot">> >>

\* tuple(v for v in ... if v in ks), in enumeration order
TupleOf(ks) == SelectSeq(KeyOrder, LAMBDA k : k \in ks)

\* watchers.get(watcher_key, {})
WatchedKeys(watchers, watcher_key) ==
    IF watcher_key \in DOMAIN watchers THEN watchers[watcher_key] ELSE <<>>

\* _map_watched_keys(watched_keys, keys): a set is wrapped into a 1-tuple and
\* then looked up in the dict, which hashes it
_map_watched_keys(watched_keys, keys) ==
    IF keys.t = "set"
    THEN [exc |-> "TypeError", res |-> <<>>]
    ELSE [exc |-> "none",
          res |-> LET ks == IF keys.t = "tuple" THEN keys.ks ELSE <<Raw(keys)>>
                      in == SelectSeq(ks, LAMBDA k : k \in DOMAIN watched_keys)
                  IN  [i \in 1..Len(in) |-> watched_keys[in[i]]]]

\* filter_fn(v), for keyhint a pattern, a tuple/list of substrings, or a str
filter_fn(keyhint, v) ==
    CASE keyhint.t = "pattern" -> match(keyhint.pat, v)
      [] keyhint.t = "tuple"   -> \A i \in 1..Len(keyhint.ks) : Contains(v, keyhint.ks[i])
      [] OTHER                 -> Contains(v, keyhint.s)

\* What _convert_key returns or raises: exc is "none" or the exception's type,
\* named the keys its message lists, key and mul the returned pair.
Converted(key, mul) == [exc |-> "none", key |-> key, mul |-> mul, named |-> {}]
Raised(exc, named) == [exc |-> exc, key |-> sentinel, mul |-> FALSE, named |-> named]

\* the possible_vals filter dropped: every captured name is kept
CapturedIn_unfiltered(names, possible_vals) == names

\* res = set(km.keys()) & possible_vals
CapturedIn(names, possible_vals) == names \cap possible_vals

\* the test for an optional category dropped: a pattern that matches nothing
\* is never skipped
NothingMatched_never(km, optional) == FALSE

\* if len(km) == 0 and optional
NothingMatched(km, optional) == Cardinality(km) = 0 /\ optional

\* _convert_key(attr, key, watcher_key, optional); kw holds the closure's
\* watchers, possible_vals and keyhint
_convert_key(obj, kw, attr, key, watcher_key, optional) ==
    LET watched_keys == WatchedKeys(kw.watchers, watcher_key) IN
    CASE key.t = "None" -> Converted(PyNone, FALSE)
      [] key.t = "str" ->
            Converted(IF key.s \in DOMAIN watched_keys
                      THEN PyStr(watched_keys[key.s]) ELSE key, FALSE)
      [] key.t = "pattern" ->
            IF ~IsMapping(obj[attr]) THEN Raised("AttributeError", {}) ELSE
            LET km  == {k \in KeysOf(obj[attr]) : match(key.pat, k)}
                res == CapturedIn({group0(key.pat, k) : k \in km}, kw.possible_vals)
            IN  IF Cardinality(res) = 0
                THEN IF NothingMatched(km, optional)
                     THEN Converted(sentinel, FALSE)
                     ELSE IF Cardinality(km) # 1
                     THEN IF kw.keyhint.t = "None"
                          THEN Raised("AssertionError", km)
                          ELSE Converted(PyTuple(TupleOf(
                                   {v \in km : filter_fn(kw.keyhint, v)})), TRUE)
                     ELSE Converted(PyStr(CHOOSE k \in km : TRUE), FALSE)
                ELSE IF Cardinality(res) # 1
                THEN LET mapped == _map_watched_keys(watched_keys, PySet(res))
                     IN  IF mapped.exc # "none" THEN Raised(mapped.exc, {})
                         ELSE IF kw.keyhint.t = "None"
                         THEN Raised("AssertionError", res)
                         ELSE Converted(PyTuple(TupleOf(
                                  {v \in km : filter_fn(kw.keyhint, v)})), TRUE)
                ELSE Converted(PyStr(CHOOSE k \in km : group0(key.pat, k) \in res),
                               FALSE)
      [] OTHER ->
            \* key, _ = _map_watched_keys(watcher_key, key),   -- the trailing
            \* comma makes the right-hand side a 1-tuple; watcher_key is a str,
            \* so `k in watcher_key` is a substring test and watcher_key[k] fails
            IF \E i \in 1..Len(key.ks) : Contains(watcher_key, key.ks[i])
            THEN Raised("TypeError", {})
            ELSE Raised("ValueError", {})

----------------------------------------------------------------------------
(* PickleBackend.save *)

RECURSIVE Descend(_, _)
\* for k in keys: obj = obj[k]
Descend(obj, ks) ==
    IF ks = <<>> THEN [exc |-> "none", obj |-> obj]
    ELSE IF ~IsMapping(obj) THEN [exc |-> "TypeError", obj |-> obj]
    ELSE IF Head(ks) \notin KeysOf(obj) THEN [exc |-> "KeyError", obj |-> obj]
    ELSE Descend(GetItem(obj, Head(ks)), Tail(ks))

\* _get_val(obj, keys, optional): found is FALSE where the code returns the
\* sentinel, warned where it warns
_get_val(obj, keys, optional, skip_not_found) ==
    IF keys.t = "None"
    THEN [exc |-> "none", found |-> TRUE, val |-> obj, warned |-> FALSE]
    ELSE With(Descend(obj, IF keys.t = "tuple" THEN keys.ks ELSE <<keys.s>>),
         LAMBDA d :
             CASE d.exc = "none" ->
                   [exc |-> "none", found |-> TRUE, val |-> d.obj, warned |-> FALSE]
               [] d.exc = "KeyError" /\ optional ->
                   [exc |-> "none", found |-> FALSE, val |-> Absent, warned |-> FALSE]
               [] d.exc = "KeyError" /\ ~skip_not_found ->
                   [exc |-> "RuntimeError", found |-> FALSE, val |-> Absent,
                    warned |-> FALSE]
               [] d.exc = "KeyError" ->
                   [exc |-> "none", found |-> FALSE, val |-> Absent, warned |-> TRUE]
               [] OTHER ->
                   [exc |-> d.exc, found |-> FALSE, val |-> Absent, warned |-> FALSE])

\* one (attr, key), value pair of a stored record; key is the tuple of subkeys
Entry(attr, key, val) == [attr |-> attr, key |-> key, val |-> val]

\* _get_data(adata, attr, key, opt): d is the list of what the caller appends
\* (nothing when the code returns None)
_get_data(obj, attr, key, opt, skip_not_found) ==
    With(_get_val(obj[attr], key, opt, skip_not_found), LAMBDA value :
        [exc |-> value.exc,
         d |-> IF value.exc = "none" /\ value.found
               THEN << Entry(attr,
                             IF key.t = "tuple" THEN key.ks ELSE <<Raw(key)>>,
                             value.val) >>
               ELSE <<>>,
         warns |-> IF value.warned
                   THEN {<<attr, IF key.t = "tuple" THEN key.ks ELSE <<Raw(key)>> >>}
                   ELSE {}])

\* what save has done so far, or how it ended
Saving(exc, named, data, warns) ==
    [exc |-> exc, named |-> named, data |-> data, warns |-> warns]

RECURSIVE _get_data_each(_, _, _, _, _, _)
\* for k in key: d = _get_data(adata, attr, k, opt); data.append(d) unless None
_get_data_each(obj, attr, ks, opt, skip_not_found, acc) ==
    IF ks = <<>> THEN acc
    ELSE With(_get_data(obj, attr, Head(ks), opt, skip_not_found), LAMBDA d :
             IF d.exc # "none"
             THEN Saving(d.exc, {}, acc.data, acc.warns)
             ELSE _get_data_each(obj, attr, Tail(ks), opt, skip_not_found,
                      Saving("none", {}, acc.data \o d.d, acc.warns \cup d.warns)))

Min(a, b) == IF a <= b THEN a ELSE b

RECURSIVE save_loop(_, _, _, _, _, _)
\* for attr, key, watcher_key, opt in zip(attrs, keys, watcher_keys, is_optional)
save_loop(obj, attrs, keys, kw, i, acc) ==
    IF i > Min(Min(Len(attrs), Len(keys)),
               Min(Len(kw.watcher_keys), Len(kw.is_optional)))
    THEN acc
    ELSE LET attr == attrs[i]
             opt  == kw.is_optional[i]
         IN  IF ~hasattr(obj, attr)
             THEN IF opt
                  THEN save_loop(obj, attrs, keys, kw, i + 1, acc)
                  ELSE Saving("AttributeError", {}, acc.data, acc.warns)
             ELSE With(_convert_key(obj, kw, attr, keys[i], kw.watcher_keys[i], opt),
                  LAMBDA c :
                      IF c.exc # "none"
                      THEN Saving(c.exc, c.named, acc.data, acc.warns)
                      ELSE IF c.key.t = "sentinel"
                      THEN save_loop(obj, attrs, keys, kw, i + 1, acc)
                      \* for k in key: d = _get_data(...)   if check_for_mul_keys,
                      \* d = _get_data(adata, attr, key, opt) otherwise
                      ELSE With(IF c.mul
                                THEN _get_data_each(obj, attr,
                                         [j \in 1..Len(c.key.ks) |-> PyStr(c.key.ks[j])],
                                         opt, kw.skip, acc)
                                ELSE _get_data_each(obj, attr, <<c.key>>, opt,
                                                    kw.skip, acc),
                                LAMBDA got :
                                    IF got.exc # "none" THEN got
                                    ELSE save_loop(obj, attrs, keys, kw, i + 1, got)))

\* save(adata, fname, attrs, keys, keyhint=None, watcher_keys={}, watchers={},
\*      skip=False, possible_vals={}, is_optional=[False] * len(attrs)):
\* the record that is pickled into the file, unless exc tells what was raised
\* before the file was opened
save(obj, attrs, keys, kw) == save_loop(obj, attrs, keys, kw, 1, Saving("none", {}, <<>>, {}))

----------------------------------------------------------------------------
(* PickleBackend.load *)

\* what load has done so far, or how it ended: obj is the container as the
\* entries handled so far have left it
Loading(exc, obj, warns) == [exc |-> exc, obj |-> obj, warns |-> warns]

RECURSIVE SetPath(_, _, _)
\* for k in key[:-1]: (at[k] = dict() if k not in at.keys()); at = at[k]
\* at[key[-1]] = val
SetPath(at, key, val) ==
    IF ~IsMapping(at)
    THEN [exc |-> IF Len(key) > 1 THEN "AttributeError" ELSE "TypeError", obj |-> at]
    ELSE IF Len(key) = 1
    THEN [exc |-> "none", obj |-> SetItem(at, key[1], val)]
    ELSE With(SetPath(IF Head(key) \in KeysOf(at) THEN GetItem(at, Head(key))
                      ELSE EmptyDict, Tail(key), val),
              LAMBDA rest : [exc |-> rest.exc, obj |-> SetItem(at, Head(key), rest.obj)])

\* no stored value is taken for the sentinel
IsNone_never(val) == FALSE

\* val is None
IsNone(val) == val = NoneVal

\* the body of the loop over the stored entries, for one entry
load_entry(obj, e, skip_if_not_found) ==
    IF IsNone(e.val)
    THEN IF ~skip_if_not_found
         THEN Loading("RuntimeError", obj, {})
         ELSE Loading("none", obj, {<<e.attr, e.key>>})
    ELSE IF ~hasattr(obj, e.attr)
    THEN \* the shape is chosen for obsm and varm, and then `keys` is no name
         IF e.attr \in {<<"obsm">>, <<"varm">>}
         THEN Loading("NameError", obj, {})
         ELSE Loading("AttributeError", obj, {})
    ELSE IF e.key[1] # NoneKey
    THEN With(SetPath(obj[e.attr], e.key, e.val), LAMBDA w :
             Loading(w.exc, [obj EXCEPT ![e.attr] = w.obj], {}))
    ELSE Loading("none", [obj EXCEPT ![e.attr] = e.val], {})

RECURSIVE load_loop(_, _, _, _)
\* for (attr, key), val in zip(attrs_keys, vals)
load_loop(data, i, skip_if_not_found, acc) ==
    IF i > Len(data) THEN acc
    ELSE With(load_entry(acc.obj, data[i], skip_if_not_found), LAMBDA r :
             IF r.exc # "none"
             THEN Loading(r.exc, r.obj, acc.warns)
             ELSE load_loop(data, i + 1, skip_if_not_found,
                            Loading("none", r.obj, acc.warns \cup r.warns)))

\* a file of the backend directory
NoFile == [exists |-> FALSE, data |-> <<>>]
File(data) == [exists |-> TRUE, data |-> data]

\* the file a name refers to: the directory holds files only, so a name
\* under a subdirectory refers to none
FileAt(fs, name) == IF name \in DOMAIN fs THEN fs[name] ELSE NoFile

\* with open(os.path.join(self.dir, fname), 'wb') as fout:
\*     pickle.dump(data, fout)
\* open() raises when the name lies under a directory that does not exist
dump(fs, name, data) ==
    IF name \in DOMAIN fs
    THEN [exc |-> "none", fs |-> [fs EXCEPT ![name] = File(data)]]
    ELSE [exc |-> "FileNotFoundError", fs |-> fs]

\* load(adata, fname, skip=False): open() finds no file, or zip(*[]) has
\* nothing to unpack into attrs_keys, vals, or the entries are handled in order
load(obj, file, skip_if_not_found) ==
    IF ~file.exists THEN Loading("FileNotFoundError", obj, {})
    ELSE IF file.data = <<>> THEN Loading("ValueError", obj, {})
    ELSE load_loop(file.data, 1, skip_if_not_found, Loading("none", obj, {}))

----------------------------------------------------------------------------
(* Cache: rules and callbacks *)

X == <<"X">>
uns == <<"uns">>
obsm == <<"obsm">>
Categories == {X, uns, obsm}

\* SC_TMP_PLOT_KEY
SC_TMP_PLOT_KEY == <<"plot">>

\* self._ext
Ext == <<".pickle">>

\* pat.sub('', a) for pat = re.compile(r'_cache\d+$')
StripCache(a) ==
    IF Len(a) > 0 /\ a[Len(a)] \in {"_cache1", "_cache2"}
    THEN SubSeq(a, 1, Len(a) - 1) ELSE a

\* A rule is what cache(dict(attr=key, ...), default_fname=..., default_fn=...,
\* is_plot=...) closes over.
Rule(name, attrs, keys, default_fn, is_plot) ==
    [name |-> name, attrs |-> attrs, keys |-> keys,
     default_fname |-> <<"cache">>, default_fn |-> default_fn, is_plot |-> is_plot]

\* cache(dict(X=None), default_fname=...): default_fn is lambda *_x, **_y: None
expression == Rule("expression", <<X>>, <<PyNone>>, "lambda", FALSE)

\* cache(dict(obsm='X_pca', ..., uns_cache1=['pca', 'variance']), default_fn=sc.pp.pca),
\* of which the single key and one nested key path are kept
pca == Rule("pca", <<obsm, <<"uns", "_cache1">> >>,
            <<PyStr(<<"X_pca">>), PyTuple(<< <<"pca">>, <<"variance">> >>)>>,
            "fn", FALSE)

\* cache(dict(uns=re.compile(r'(.+)_graph$'), ...), default_fn=scv.tl.velocity_graph)
velocity_graph == Rule("velocity_graph", <<uns>>,
                       <<PyPattern(Regex(<<>>, TRUE, <<"_graph">>, TRUE))>>,
                       "fn", FALSE)

\* cache(dict(uns=SC_TMP_PLOT_KEY), default_fn=wrap(fn), is_plot=True)
plot == Rule("plot", <<uns>>, <<PyStr(SC_TMP_PLOT_KEY)>>, "plot", TRUE)

\* cache(dict(uns='pca', ..., obsm='X_pca', ...), default_fn=scv.pp.moments),
\* of which the declarations on uns and obsm are kept
moments == Rule("moments", <<uns, obsm>>, <<PyStr(<<"pca">>), PyStr(<<"X_pca">>)>>,
                "fn", FALSE)

\* attrs = tuple(pat.sub('', a) for a in attrs)
Attrs(rule) == [i \in 1..Len(rule.attrs) |-> StripCache(rule.attrs[i])]

\* the object None, which has none of the categories
NoneObj == [c \in Categories |-> Absent]

\* what a call returns
RetNone == [kind |-> "None"]
RetObj(obj) == [kind |-> "adata", obj |-> obj]
RetImage(data) == [kind |-> "Image", data |-> data]

\* the value a computation produces, and the raster buffer fig2data(fig)
Computed == Atom("new")
Buffer == Atom("buf")

\* the key a computation stores its result under: the declared key, or for a
\* pattern the key made of the name given in the call (by default "leiden")
TargetKey(key, args) ==
    CASE key.t = "None"    -> <<NoneKey>>
      [] key.t = "str"     -> <<key.s>>
      [] key.t = "tuple"   -> key.ks
      [] OTHER -> << key.pat.pre \o (IF args = <<>> THEN <<"leiden">> ELSE args[1])
                        \o key.pat.suf >>

RECURSIVE Compute(_, _, _, _)
\* the computation the rule caches writes its value at every declared place
Compute(rule, obj, args, i) ==
    IF i > Len(rule.attrs) THEN obj
    ELSE LET attr == Attrs(rule)[i]
             key  == TargetKey(rule.keys[i], args)
         IN  With(IF key[1] = NoneKey THEN [exc |-> "none", obj |-> Computed]
                  ELSE SetPath(IF obj[attr] = Absent THEN EmptyDict ELSE obj[attr],
                               key, Computed),
                  LAMBDA w :
                      With(IF w.exc = "none" THEN [obj EXCEPT ![attr] = w.obj] ELSE obj,
                           LAMBDA done : Compute(rule, done, args, i + 1)))

\* callback(*args, **kwargs): adata is args[0] as the callback leaves it, res
\* what it returns.
\*   "lambda": lambda *_x, **_y: None
\*   "plot":   _init_pl.wrap.wrapper
\*   "fn":     a computation, which with copy=True works on and returns a copy
callback(cb, rule, obj, args, copy) ==
    CASE cb = "lambda" -> [adata |-> obj, res |-> RetNone]
      [] cb = "plot" ->
            IF SC_TMP_PLOT_KEY \in KeysOf(obj[uns])
            THEN [adata |-> obj, res |-> RetNone]
            ELSE [adata |-> [obj EXCEPT ![uns] = SetItem(obj[uns], SC_TMP_PLOT_KEY, Buffer)],
                  res |-> RetNone]
      [] OTHER ->
            IF copy
            THEN [adata |-> obj, res |-> RetObj(Compute(rule, obj, args, 1))]
            ELSE [adata |-> Compute(rule, obj, args, 1), res |-> RetNone]

----------------------------------------------------------------------------
(* Cache._create_cache_fn.wrapper and Cache.cache.wrapper *)

\* the one file name the modelled calls resolve to
FileNames == {<<"cache">> \o Ext}

\* if fname is None: fname = default_fname
\* if not fname.endswith(self._ext): fname += self._ext
FileName(rule, fname) ==
    LET f == IF fname = NoneKey THEN rule.default_fname ELSE fname
    IN  IF EndsWith(f, Ext) THEN f ELSE f \o Ext

\* the keyword arguments the cache function gives to save: the others keep
\* their defaults keyhint=None, watcher_keys={}, watchers={}, is_optional
SaveKwargs(rule, skip, args) ==
    [keyhint |-> PyNone, watcher_keys |-> <<>>, watchers |-> <<>>, skip |-> skip,
     possible_vals |-> {args[i] : i \in 1..Len(args)},
     is_optional |-> [i \in 1..Len(rule.attrs) |-> FALSE]]

\* no file is ever found
is_file_never(fs, name) == FALSE

\* (self.backend.dir / fname).is_file()
is_file(fs, name) == FileAt(fs, name).exists

\* cache_fn(adata, fname, recache, verbose, skip, *args, **kwargs): every
\* exception of save and load is caught and False returned; swallowed is its
\* type.  obj is the object as load left it, fs the directory afterwards.
cache_fn(rule, obj, fs, fname, recache, skip, args) ==
    LET name == FileName(rule, fname) IN
    IF recache
    THEN With(save(obj, Attrs(rule), rule.keys, SaveKwargs(rule, skip, args)),
         LAMBDA s :
           With(IF s.exc = "none" THEN dump(fs, name, s.data)
                ELSE [exc |-> s.exc, fs |-> fs],
           LAMBDA w :
             [ret |-> w.exc = "none", obj |-> obj, fs |-> w.fs,
              loads |-> 0, saves |-> 1, writes |-> IF w.exc = "none" THEN 1 ELSE 0,
              swallowed |-> w.exc, warns |-> s.warns]))
    ELSE IF is_file(fs, name)
    THEN With(load(obj, FileAt(fs, name), skip), LAMBDA l :
             [ret |-> l.exc = "none", obj |-> l.obj, fs |-> fs,
              loads |-> 1, saves |-> 0, writes |-> 0,
              swallowed |-> l.exc, warns |-> l.warns])
    ELSE [ret |-> FALSE, obj |-> obj, fs |-> fs, loads |-> 0, saves |-> 0,
          writes |-> 0, swallowed |-> "none", warns |-> {}]

\* `res if copy else adata`, as an object save can look into
ObjOf(res) == IF res.kind = "adata" THEN res.obj ELSE NoneObj

\* How a call of the caching function ends: exc is what reaches the caller
\* ("none" on a return), ret what is returned, adata the caller's container
\* and fs the directory afterwards, branch the terminating branch, calls the
\* number of callback invocations, loads/saves the backend calls, writes the
\* number of times the file was written, target the object load wrote into,
\* source the object save read from.
Outcome(exc, ret, a, fs, branch, calls, loads, saves, writes, swallowed, warns, target, source) ==
    [exc |-> exc, ret |-> ret, adata |-> a, fs |-> fs, branch |-> branch,
     calls |-> calls, loads |-> loads, saves |-> saves, writes |-> writes,
     swallowed |-> swallowed, warns |-> warns, target |-> target,
     source |-> source]

\* the transient key is not deleted
Computed_return_keeping(rule, o) == o

\* if is_plot: del adata.uns[SC_TMP_PLOT_KEY]; return
\* return res                      (after a computation and its save)
Computed_return(rule, o) ==
    IF ~rule.is_plot THEN o
    ELSE IF SC_TMP_PLOT_KEY \in KeysOf(o.adata[uns])
    THEN [o EXCEPT !.ret = RetNone,
                   !.adata = [@ EXCEPT ![uns] = DelItem(@, SC_TMP_PLOT_KEY)]]
    ELSE [o EXCEPT !.exc = "KeyError", !.ret = RetNone]

\* the assertion on the result of the save dropped
Asserted_unchecked(ret) == TRUE

\* assert ret, 'Caching failed, horribly.'
Asserted(ret) == ret

\* the part of wrapper after res = callback(*args, **kwargs), c being what
\* the callback left: save, the assertion on its result, and the return
Computed_save(rule, fs, fname, in, copy, c, branch, l) ==
    LET src == IF copy THEN ObjOf(c.res) ELSE c.adata
    IN  With(cache_fn(rule, src, fs, fname, TRUE, in.skip, in.args), LAMBDA s :
          With(Outcome("none", c.res, c.adata, s.fs, branch,
                       IF in.call \/ in.force THEN 1 ELSE 0, l.loads, s.saves,
                       s.writes, l.swallowed, l.warns \cup s.warns, l.obj, src),
               LAMBDA o :
                 IF ~Asserted(s.ret)
                 THEN [o EXCEPT !.exc = "AssertionError", !.ret = RetNone,
                                !.swallowed = s.swallowed]
                 ELSE Computed_return(rule, o)))

\* the part of wrapper after a successful cache_fn(adata, fname, False, ...),
\* l being what it left
Loaded_return(rule, copy, mine, l) ==
    With(Outcome("none", RetNone, mine, l.fs, "Loaded", 0, l.loads, 0, 0, "none",
                 l.warns, l.obj, NoneObj), LAMBDA o :
      IF rule.is_plot
      THEN \* data = adata.uns[SC_TMP_PLOT_KEY].copy(); del ...; return Image
           IF SC_TMP_PLOT_KEY \in KeysOf(l.obj[uns])
           THEN [o EXCEPT !.ret = RetImage(GetItem(l.obj[uns], SC_TMP_PLOT_KEY)),
                          !.adata = [@ EXCEPT ![uns] = DelItem(@, SC_TMP_PLOT_KEY)]]
           ELSE [o EXCEPT !.exc = "KeyError"]
      ELSE IF ~copy THEN o
      ELSE [o EXCEPT !.ret = RetObj(l.obj)])

\* a cache_fn that was not called
NotLoaded(a, fs) ==
    [ret |-> FALSE, obj |-> NoneObj, fs |-> fs, loads |-> 0, saves |-> 0,
     writes |-> 0, swallowed |-> "none", warns |-> {}]

\* no copy is made: load writes into the caller's container
args0_shared(copy, a, loaded) == loaded

\* args[0] after `if copy: adata = adata.copy()` and the load into adata: the
\* caller's container is the one loaded into unless a copy was made
args0(copy, a, loaded) == IF copy THEN a ELSE loaded

\* the result is nothing also when a copy was made
uncalled_none(copy, mine, adata_copy) == [adata |-> mine, res |-> RetNone]

\* res = ... if call else adata if copy else None: nothing is called, mine is
\* the caller's container and adata_copy the duplicate made of it
uncalled(copy, mine, adata_copy) ==
    [adata |-> mine, res |-> IF copy THEN RetObj(adata_copy) ELSE RetNone]

\* isinstance(adata, anndata.AnnData): an AnnData has every category
IsAnnData(a) == \A c \in Categories : a[c] # Absent

\* wrapper(*args, **kwargs) of cache(): in holds force, call, skip,
\* copy, the callback given as first argument ("None" when none is) and the
\* arguments after adata
wrapper(rule, a, fs, fname, in) ==
    LET copy == in.copy /\ ~rule.is_plot
        cb   == IF (in.call \/ in.force) /\ in.callback = "None"
                THEN rule.default_fn ELSE in.callback
    IN
    \* assert isinstance(adata, (anndata.AnnData, ))
    IF ~IsAnnData(a)
    THEN Outcome("AssertionError", RetNone, a, fs, "Rejected", 0, 0, 0, 0, "none",
                 {}, NoneObj, NoneObj)
    ELSE IF in.force
    THEN With(callback(cb, rule, a, in.args, copy), LAMBDA c :
           Computed_save(rule, fs, fname, in, copy, c, "ForceCompute",
                         NotLoaded(a, fs)))
    ELSE \* if copy: adata = adata.copy()
         With(cache_fn(rule, a, fs, fname, FALSE, in.skip, in.args), LAMBDA l :
           \* the caller's container: load wrote into it unless into the copy
           With(args0(copy, a, l.obj), LAMBDA mine :
             IF ~l.ret
             THEN \* res = callback(*args, **kwargs) if call else adata if copy else None
                  With(IF in.call THEN callback(cb, rule, mine, in.args, copy)
                       ELSE uncalled(copy, mine, l.obj),
                       LAMBDA c :
                         Computed_save(rule, l.fs, fname, in, copy, c, "Saved", l))
             ELSE Loaded_return(rule, copy, mine, l)))

----------------------------------------------------------------------------
(* The containers, rules and arguments the operations are checked on *)

leiden_graph == <<"leiden", "_graph">>
louvain_graph == <<"louvain", "_graph">>
paga_graph == <<"paga", "_graph">>

Dict1(k, v) == SetItem(EmptyDict, k, v)
Dict2(k1, v1, k2, v2) == SetItem(Dict1(k1, v1), k2, v2)

AnnData(x, u, o) == [c \in Categories |-> IF c = X THEN x ELSE IF c = uns THEN u ELSE o]

Idle == [op |-> "idle"]

\* the caller takes the result
Return ==
    /\ last.op # "idle"
    /\ last' = Idle
    /\ UNCHANGED <<adata, files>>

----------------------------------------------------------------------------
(* SpecKey: _convert_key on every combination of its inputs *)

KeyContainers ==
    { AnnData(Atom("old"), u, EmptyDict) :
        u \in { EmptyDict, Dict1(leiden_graph, Atom("old")),
                Dict1(<<"pca">>, Atom("old")),
                Dict2(leiden_graph, Atom("old"), louvain_graph, Atom("old")),
                Dict2(leiden_graph, Atom("old"), <<"pca">>, Atom("old")),
                SetItem(Dict2(leiden_graph, Atom("old"), louvain_graph, Atom("old")),
                        <<"pca">>, Atom("old")),
                SetItem(Dict2(leiden_graph, Atom("old"), louvain_graph, Atom("old")),
                        paga_graph, Atom("old")) } }

KeySpecs ==
    { PyNone, PyStr(leiden_graph), PyStr(<<"graph">>),
      PyTuple(<< <<"pca">>, <<"variance">> >>),
      PyPattern(Regex(<<>>, TRUE, <<"_graph">>, TRUE)) }

KeyHints ==
    { PyNone, PyStr(<<"_graph">>), PyStr(<<"leiden">>),
      PyTuple(<< <<"louvain">>, <<"_graph">> >>),
      PyPattern(Regex(<<"leiden">>, FALSE, <<>>, FALSE)) }

PossibleVals ==
    { {}, {<<"pca">>}, {<<"leiden">>}, {<<"leiden">>, <<"louvain">>},
      {<<"louvain">>, <<"pca">>} }

Watchers == { <<>>, [w \in {uns} |-> [k \in {<<"graph">>} |-> leiden_graph]] }

ConvertArgs ==
    [key : KeySpecs, keyhint : KeyHints, possible_vals : PossibleVals,
     watchers : Watchers, optional : BOOLEAN]

\* key, check_for_mul_keys = _convert_key(attr, key, watcher_key, opt)
ConvertKey(in) ==
    /\ last.op = "idle"
    /\ last' = [op |-> "_convert_key", in |-> in,
                out |-> _convert_key(adata, in, uns, in.key, uns, in.optional)]
    /\ UNCHANGED <<adata, files>>

InitKey ==
    /\ adata \in KeyContainers
    /\ files = [n \in FileNames |-> NoFile]
    /\ last = Idle

NextKey ==
    \/ \E in \in ConvertArgs : ConvertKey(in)
    \/ Return

SpecKey == InitKey /\ [][NextKey]_vars

----------------------------------------------------------------------------
(* SpecBackend: backend.save and backend.load on objects and files *)

\* an AnnData that holds none of the cached values
Fresh == AnnData(Atom("old"), EmptyDict, EmptyDict)

Containers ==
    { Fresh,
      AnnData(Atom("old"), Dict2(leiden_graph, Atom("old"), louvain_graph, Atom("old")),
              EmptyDict),
      \* one that holds None where values are expected
      AnnData(NoneVal, Dict2(leiden_graph, NoneVal, <<"pca">>, NoneVal),
              Dict1(<<"X_pca">>, Atom("old"))),
      AnnData(Atom("old"), Dict1(<<"pca">>, Dict1(<<"variance">>, Atom("old"))),
              Dict1(<<"X_pca">>, Atom("old"))),
      \* an object that is no AnnData and lacks categories
      AnnData(Absent, Dict1(<<"pca">>, Atom("old")), Absent) }

\* files found in the directory that earlier runs have left there
StoredFiles ==
    { << Entry(uns, << <<"pca">>, <<"variance">> >>, Atom("old")),
         Entry(uns, <<leiden_graph>>, NoneVal) >>,
      << Entry(obsm, << <<"X_pca">> >>, Atom("old")),
         Entry(uns, <<leiden_graph>>, NoneVal) >> }

Rules == {expression, pca, velocity_graph, moments, plot}

IsPatternRule(rule) == \E i \in 1..Len(rule.keys) : rule.keys[i].t = "pattern"

\* the arguments of a direct backend.save call: declared says whether
\* watcher_keys is given (the declared attrs) or left at its default {}
SaveArgs ==
    { in \in [rule : Rules,
              keyhint : {PyNone, PyStr(<<"_graph">>), PyStr(<<"leiden">>)},
              possible_vals : {{}, {<<"leiden">>}, {<<"leiden">>, <<"louvain">>}},
              declared : BOOLEAN, optional : BOOLEAN, skip : BOOLEAN] :
        IsPatternRule(in.rule) \/ (in.keyhint = PyNone /\ in.possible_vals = {}) }

\* the file is opened for writing, and so emptied, before the declared paths
\* are resolved
store_opened_first(fs, name, s) ==
    IF s.exc = "none" THEN dump(fs, name, s.data).fs
    ELSE dump(fs, name, <<>>).fs

\* the directory after save: s is how the loop over the declared paths
\* ended, and only when it has ended without an exception is the file opened
store(fs, name, s) ==
    IF s.exc = "none" THEN dump(fs, name, s.data).fs ELSE fs

\* backend.save(adata, fname, attrs, keys, keyhint=..., watcher_keys=...,
\*              skip=..., possible_vals=..., is_optional=...)
BackendSave(a, in) ==
    /\ last.op = "idle"
    /\ LET kw == [keyhint |-> in.keyhint,
                  watcher_keys |-> IF in.declared THEN in.rule.attrs ELSE <<>>,
                  watchers |-> <<>>, skip |-> in.skip,
                  possible_vals |-> in.possible_vals,
                  is_optional |-> [i \in 1..Len(in.rule.attrs) |-> in.optional]]
           name == FileName(in.rule, NoneKey)
       IN  \E s \in {save(a, Attrs(in.rule), in.rule.keys, kw)} :
           /\ adata' = a
           /\ files' = store(files, name, s)
           /\ last' = [op |-> "save", in |-> in, before |-> a,
                       file |-> files[name], out |-> s]

\* backend.load(adata, fname, skip=...)
BackendLoad(a, name, skip) ==
    /\ last.op = "idle"
    /\ \E l \in {load(a, files[name], skip)} :
           /\ adata' = l.obj
           /\ files' = files
           /\ last' = [op |-> "load", skip |-> skip, before |-> a,
                       file |-> files[name], out |-> l]

InitBackend ==
    /\ adata \in Containers
    /\ files \in [FileNames -> {NoFile} \cup {File(d) : d \in StoredFiles}]
    /\ last = Idle

NextBackend ==
    \/ \E a \in Containers, in \in SaveArgs : BackendSave(a, in)
    \/ \E a \in Containers, n \in FileNames, skip \in BOOLEAN : BackendLoad(a, n, skip)
    \/ Return

SpecBackend == InitBackend /\ [][NextBackend]_vars

----------------------------------------------------------------------------
(* Spec: the caching functions called on containers, next to direct uses of
   the backend on the same directory *)

CallArgs ==
    [force : BOOLEAN, call : BOOLEAN, skip : BOOLEAN, copy : BOOLEAN,
     callback : {"None", "fn"}, args : {<<>>, << <<"leiden">> >>}]

\* the direct backend.save calls of this specification name every category
CallRules == {velocity_graph, plot, moments}

DirectSaveArgs ==
    { in \in SaveArgs : /\ in.rule \in CallRules
                        /\ in.declared /\ ~in.optional /\ ~in.skip
                        /\ in.keyhint = PyNone
                        /\ in.possible_vals \in {{}, {<<"leiden">>}} }

\* a file name under a subdirectory that the backend's directory lacks
NoDirName == <<"old", "/", "cache">>

\* the calls made with that name: default callback, no further arguments
NoDirArgs == {in \in CallArgs : in.callback = "None" /\ in.args = <<>> /\ ~in.skip}

\* cache.<module>.<rule>(callback, adata, *args, fname=..., force=..., ...)
Call(a, rule, fname, in) ==
    /\ last.op = "idle"
    /\ \E o \in {wrapper(rule, a, files, fname, in)} :
           /\ adata' = o.adata
           /\ files' = o.fs
           /\ last' = [op |-> "call", rule |-> rule, in |-> in, before |-> a,
                       file |-> FileAt(files, FileName(rule, fname)), out |-> o]

\* the record of a plot rule whose raster buffer was stored
PlotRecord == << Entry(uns, <<SC_TMP_PLOT_KEY>>, Buffer) >>

\* the directory is empty, or holds the file an earlier plot or an earlier
\* run left there
Init ==
    /\ adata \in Containers
    /\ files \in [FileNames -> {NoFile, File(PlotRecord)}
                                  \cup {File(d) : d \in StoredFiles}]
    /\ last = Idle

Next ==
    \/ \E a \in {adata, Fresh}, rule \in CallRules,
          fname \in {NoneKey, <<"cache">> \o Ext}, in \in CallArgs :
            Call(a, rule, fname, in)
    \/ \E a \in {adata, Fresh}, rule \in CallRules, in \in NoDirArgs :
            Call(a, rule, NoDirName, in)
    \/ \E in \in DirectSaveArgs : BackendSave(adata, in)
    \/ \E n \in FileNames, skip \in BOOLEAN : BackendLoad(adata, n, skip)
    \/ Return

Spec == Init /\ [][Next]_vars

----------------------------------------------------------------------------
(* Properties of key resolution, checked under SpecKey *)

\* the last operation resolved a Pattern key spec
ResolvedPattern == last.op = "_convert_key" /\ last.in.key.t = "pattern"

\* the existing keys of the category that the resolved pattern matches
Matching == {k \in KeysOf(adata[uns]) : match(last.in.key.pat, k)}

\* those of them whose captured name is a member of possibleValues
Named == {k \in Matching : group0(last.in.key.pat, k) \in last.in.possible_vals}

\* the candidates of an ambiguous resolution (empty if it is not ambiguous)
Candidates ==
    IF Cardinality(Named) > 1 THEN Named
    ELSE IF Named = {} /\ Cardinality(Matching) > 1 THEN Matching
    ELSE {}

\* C5: when exactly one captured name of the matching keys is in
\* possibleValues, resolution returns that one full key and nothing else,
\* with or without a hint.
C5_PatternByArguments ==
    (ResolvedPattern /\ Cardinality(Named) = 1) =>
        /\ last.out.exc = "none"
        /\ ~last.out.mul
        /\ last.out.key.t = "str"
        /\ {last.out.key.s} = Named

\* leiden_graph and louvain_graph exist, possibleValues = {leiden}, and the
\* hint given would select louvain_graph: leiden_graph is returned
C5_Witness ==
    /\ ResolvedPattern
    /\ Matching = {leiden_graph, louvain_graph}
    /\ last.in.possible_vals = {<<"leiden">>}
    /\ last.in.keyhint = PyTuple(<< <<"louvain">>, <<"_graph">> >>)
    /\ last.out.exc = "none"
    /\ last.out.key = PyStr(leiden_graph)

\* C6: an ambiguous Pattern resolution with no hint fails with an error that
\* names every candidate key.
C6_AmbiguityWithoutHintFails ==
    (ResolvedPattern /\ last.in.keyhint = PyNone /\ Candidates # {}) =>
        /\ last.out.exc # "none"
        /\ last.out.named = Candidates

\* the hint predicate as specified: full match for a pattern hint, every
\* substring present for a sequence hint, containment for a single substring
HintAccepts(keyhint, k) ==
    CASE keyhint.t = "pattern" -> match([keyhint.pat EXCEPT !.end = TRUE], k)
      [] keyhint.t = "tuple"   -> \A i \in 1..Len(keyhint.ks) : Contains(k, keyhint.ks[i])
      [] OTHER                 -> Contains(k, keyhint.s)

\* C7: an ambiguous Pattern resolution with a hint returns exactly the
\* candidate keys that satisfy the hint predicate, each to be saved as an
\* entry of its own.
C7_HintNarrowsAmbiguity ==
    (ResolvedPattern /\ last.in.keyhint # PyNone /\ Candidates # {}) =>
        /\ last.out.exc = "none"
        /\ last.out.mul
        /\ last.out.key.t = "tuple"
        /\ {last.out.key.ks[i] : i \in 1..Len(last.out.key.ks)}
             = {k \in Candidates : HintAccepts(last.in.keyhint, k)}

----------------------------------------------------------------------------
(* Properties of backend.save and backend.load, checked under SpecBackend *)

\* the path a declared key names: a tuple is a path of subkeys, None the slot
\* of the whole category
PathOf(key) == IF key.t = "tuple" THEN key.ks ELSE <<Raw(key)>>

\* the value obj holds at a path of a category (Absent if it holds none)
ValueAt(obj, attr, path) ==
    IF ~hasattr(obj, attr) THEN Absent
    ELSE IF path[1] = NoneKey THEN obj[attr]
    ELSE IF Descend(obj[attr], path).exc = "none" THEN Descend(obj[attr], path).obj
    ELSE Absent

\* the declared places of a rule, as <<category, path>> pairs
Places(rule) ==
    {<<Attrs(rule)[i], PathOf(rule.keys[i])>> : i \in 1..Len(rule.keys)}

\* C4: saving a source object that holds a value v at every declared path
\* (whole category, single key or nested key path) and loading the written
\* file into a container leaves the container holding v at that path.
C4_RoundTrip ==
    (/\ last.op = "save" /\ last.in.declared /\ ~IsPatternRule(last.in.rule)
     /\ \A pl \in Places(last.in.rule) :
            ValueAt(adata, pl[1], pl[2]) \notin {Absent, NoneVal}) =>
        /\ last.out.exc = "none"
        /\ \A pl \in Places(last.in.rule) :
              ValueAt(load(Fresh, files[FileName(last.in.rule, NoneKey)], FALSE).obj,
                      pl[1], pl[2])
                = ValueAt(adata, pl[1], pl[2])

\* the declared categories the source object of the last save lacks
AbsentCategories ==
    {Attrs(last.in.rule)[i] : i \in 1..Len(last.in.rule.attrs)}
        \ {c \in Categories : hasattr(adata, c)}

\* C8: a declared category absent on the source is skipped without error and
\* without entry when optional, the other categories still being written; it
\* makes save fail with an attribute-missing error when not optional.
C8_OptionalMissingSkip ==
    (last.op = "save" /\ ~IsPatternRule(last.in.rule) /\ AbsentCategories # {}) =>
        IF last.in.optional
        THEN /\ last.out.exc = "none"
             /\ \A i \in 1..Len(last.out.data) :
                    last.out.data[i].attr \notin AbsentCategories
             /\ \A pl \in Places(last.in.rule) :
                    ValueAt(adata, pl[1], pl[2]) # Absent =>
                        \E i \in 1..Len(last.out.data) :
                            /\ last.out.data[i].attr = pl[1]
                            /\ last.out.data[i].key = pl[2]
                            /\ last.out.data[i].val = ValueAt(adata, pl[1], pl[2])
        ELSE last.out.exc = "AttributeError"

\* the last operation loaded, with skip=true, a file that holds a sentinel
LoadedSkipping ==
    /\ last.op = "load" /\ last.skip /\ last.file.exists
    /\ \E i \in 1..Len(last.file.data) : last.file.data[i].val = NoneVal

\* the entries of the loaded file whose value is (is not) the sentinel
SentinelEntries ==
    {last.file.data[i] : i \in {j \in 1..Len(last.file.data) :
                                    last.file.data[j].val = NoneVal}}
ValueEntries ==
    {last.file.data[i] : i \in {j \in 1..Len(last.file.data) :
                                    last.file.data[j].val # NoneVal}}

\* what holds of the container when a skipping load has returned
SkippedAndWritten ==
    /\ \A e \in SentinelEntries :
          /\ <<e.attr, e.key>> \in last.out.warns
          /\ ValueAt(adata, e.attr, e.key) = ValueAt(last.before, e.attr, e.key)
    /\ \A e \in ValueEntries : ValueAt(adata, e.attr, e.key) = e.val

Writable(obj, e) ==
    /\ hasattr(obj, e.attr)
    /\ \/ e.key[1] = NoneKey
       \/ \A n \in 0..(Len(e.key) - 1) :
             Descend(obj[e.attr], SubSeq(e.key, 1, n)).exc = "none"
                 => IsMapping(Descend(obj[e.attr], SubSeq(e.key, 1, n)).obj)

----------------------------------------------------------------------------
(* Properties of the caching functions, checked under Spec *)

\* the last operation was a call of a caching function that got past the
\* check of its container
Called == last.op = "call" /\ IsAnnData(last.before)

\* the file the last call resolved its filename to, as it is now
FileNow == files[FileName(last.rule, NoneKey)]

\* the entries of the file the last call found whose value is not the sentinel
FoundValues ==
    {last.file.data[i] : i \in {j \in 1..Len(last.file.data) :
                                    last.file.data[j].val # NoneVal}}

\* C1: after a non-forced call has found no file, invoked the callback and
\* saved, a later non-forced call of the same rule and filename on a fresh
\* container loads the file, holds the computed value at every declared path
\* and does not invoke the callback.
C1_PersistThenRestore ==
    (/\ Called /\ ~last.in.force /\ last.in.call /\ ~last.file.exists
     /\ ~IsPatternRule(last.rule) /\ ~last.rule.is_plot
     /\ last.out.branch = "Saved" /\ last.out.exc = "none") =>
        LET later == wrapper(last.rule, Fresh, files, NoneKey,
                             [last.in EXCEPT !.copy = FALSE])
        IN  /\ later.branch = "Loaded"
            /\ later.calls = 0
            /\ \A pl \in Places(last.rule) :
                  ValueAt(later.adata, pl[1], pl[2])
                    = ValueAt(last.out.source, pl[1], pl[2])

\* C2: a non-forced call that finds a file whose load succeeds never invokes
\* the callback, does not rewrite the file, and has written every stored
\* entry that is not the sentinel into the container.
C2_CacheHit ==
    (/\ Called /\ ~last.in.force /\ last.file.exists
     /\ load(last.before, last.file, last.in.skip).exc = "none") =>
        /\ last.out.calls = 0
        /\ last.out.writes = 0
        /\ FileNow = last.file
        /\ \A e \in FoundValues : ValueAt(last.out.target, e.attr, e.key) = e.val
        /\ ~last.rule.is_plot =>
              IF last.in.copy THEN last.out.ret = RetObj(last.out.target)
              ELSE adata = last.out.target

\* a hit that wrote a value the container did not hold before
C2_Witness ==
    /\ Called /\ ~last.in.force /\ last.file.exists
    /\ last.out.branch = "Loaded"
    /\ ~last.in.copy
    /\ \E e \in FoundValues :
          /\ ValueAt(last.before, e.attr, e.key) # e.val
          /\ ValueAt(adata, e.attr, e.key) = e.val

\* C3: a call with force=true attempts no load, invokes the callback exactly
\* once and overwrites the file with the values resolved from the new result.
C3_ForceRecomputes ==
    (Called /\ last.in.force /\ ~IsPatternRule(last.rule)) =>
        /\ last.out.loads = 0
        /\ last.out.calls = 1
        /\ FileNow.exists
        /\ \A pl \in Places(last.rule) :
              ValueAt(last.out.source, pl[1], pl[2]) # Absent =>
                  \E i \in 1..Len(FileNow.data) :
                      FileNow.data[i] = Entry(pl[1], pl[2],
                                              ValueAt(last.out.source, pl[1], pl[2]))

\* C10: a non-forced call with skip=false that finds a file holding the
\* sentinel ends in an error that reaches the caller, without invoking the
\* callback and without rewriting the file.
C10_MissingValueFatal ==
    (/\ Called /\ ~last.in.force /\ ~last.in.skip /\ last.file.exists
     /\ \E i \in 1..Len(last.file.data) : last.file.data[i].val = NoneVal) =>
        /\ last.out.exc # "none"
        /\ last.out.calls = 0
        /\ last.out.writes = 0
        /\ FileNow = last.file

\* C11: a call with copy=true on a rule that is no plot rule leaves the
\* caller's container unchanged on every branch; the loaded or computed
\* values are carried by the duplicate, which is what is saved and returned.
C11_CopyIsolation ==
    (Called /\ last.in.copy /\ ~last.rule.is_plot) =>
        /\ adata = last.before
        /\ last.out.exc = "none" =>
              /\ last.out.ret.kind = "adata"
              /\ last.out.branch = "Loaded" => last.out.ret.obj = last.out.target
              /\ last.out.branch \in {"Saved", "ForceCompute"} =>
                    last.out.ret.obj = last.out.source

\* a copying call that loaded values the caller's container does not hold
C11_Witness ==
    /\ Called /\ last.in.copy /\ ~last.rule.is_plot
    /\ last.out.branch = "Loaded"
    /\ last.out.ret.kind = "adata"
    /\ last.out.ret.obj # last.before
    /\ adata = last.before

\* the last operation was a call of a plot rule that returned normally
PlotReturned == Called /\ last.rule.is_plot /\ last.out.exc = "none"

\* C12: a call of a plot rule returns the image built from the raster buffer
\* on each of the branches Loaded, Saved and ForceCompute.
C12_PlotReturnsImage ==
    PlotReturned => (last.out.ret.kind = "Image" /\ last.out.ret.data = Buffer)

\* C13: a call of a plot rule on a container whose uns does not hold the
\* transient key, when it returns normally, leaves the container without
\* the transient key, whichever branch it took.
C13_TransientKeyRemoved ==
    (PlotReturned /\ SC_TMP_PLOT_KEY \notin KeysOf(last.before[uns])) =>
        SC_TMP_PLOT_KEY \notin KeysOf(adata[uns])

\* the callback of a forced plot call stored the buffer under the transient
\* key, it was saved from there, and the container no longer holds it
C13_Witness ==
    /\ PlotReturned
    /\ last.out.branch = "ForceCompute"
    /\ SC_TMP_PLOT_KEY \notin KeysOf(last.before[uns])
    /\ ValueAt(last.out.source, uns, <<SC_TMP_PLOT_KEY>>) = Buffer
    /\ SC_TMP_PLOT_KEY \notin KeysOf(adata[uns])

----------------------------------------------------------------------------
(* Further properties of key resolution, checked under SpecKey *)

\* a component as the alias table of the category maps it
Canonical(k) ==
    LET aliases == WatchedKeys(last.in.watchers, uns)
    IN  IF k \in DOMAIN aliases THEN aliases[k] ELSE k

\* C14: the resolution of a Literal or Path key spec succeeds and yields one
\* path with as many components as the spec, every component that is in the
\* alias table replaced by its canonical name and every other one kept.
C14_LiteralAndPath ==
    (last.op = "_convert_key" /\ last.in.key.t \in {"str", "tuple"}) =>
        /\ last.out.exc = "none"
        /\ ~last.out.mul
        /\ last.out.key.t = last.in.key.t
        /\ PathOf(last.out.key)
             = [i \in 1..Len(PathOf(last.in.key)) |-> Canonical(PathOf(last.in.key)[i])]

\* the same for a Literal key spec alone
C14_Literal ==
    (last.op = "_convert_key" /\ last.in.key.t = "str") =>
        /\ last.out.exc = "none"
        /\ ~last.out.mul
        /\ last.out.key = PyStr(Canonical(last.in.key.s))

\* the keys a multiple-key resolution returned
Returned == {last.out.key.ks[i] : i \in 1..Len(last.out.key.ks)}

\* C16: when more than one captured name lies in possibleValues and a hint is
\* supplied, resolution returns a set of keys, each of them a matching key
\* whose captured name is in possibleValues: a key that matches the pattern
\* and the hint but is named outside possibleValues is not returned.
C16_HintFiltersNarrowed ==
    (ResolvedPattern /\ Cardinality(Named) > 1 /\ last.in.keyhint # PyNone) =>
        /\ last.out.exc = "none"
        /\ last.out.mul
        /\ last.out.key.t = "tuple"
        /\ Returned \subseteq Named

\* C17: when no captured name lies in possibleValues, a pattern that no
\* existing key matches resolves to Skip (the sentinel, no error) if the
\* category is optional; and when more than one key matches, all matching
\* keys, unfiltered by possibleValues, are the ambiguous candidates: without
\* a hint the failure names them all, with a hint they are all returned
\* subject to the hint alone.
C17_ZeroIntersection ==
    (ResolvedPattern /\ Named = {}) =>
        /\ (Matching = {} /\ last.in.optional) =>
               last.out = Converted(sentinel, FALSE)
        /\ (Cardinality(Matching) > 1 /\ last.in.keyhint = PyNone) =>
               /\ last.out.exc = "AssertionError"
               /\ last.out.named = Matching
        /\ (Cardinality(Matching) > 1 /\ last.in.keyhint # PyNone) =>
               /\ last.out.exc = "none"
               /\ last.out.mul
               /\ last.out.key.t = "tuple"
               /\ Returned \subseteq Matching
               /\ {k \in Matching : HintAccepts(last.in.keyhint, k)} \subseteq Returned

\* three graphs exist, none of them named by possibleValues = {pca}, and the
\* hint "_graph" holds of all three: all three are returned
C17_Witness ==
    /\ ResolvedPattern
    /\ last.in.possible_vals = {<<"pca">>}
    /\ last.in.keyhint = PyStr(<<"_graph">>)
    /\ Matching = {leiden_graph, louvain_graph, paga_graph}
    /\ last.out.exc = "none"
    /\ Returned = Matching

\* an optional category in which nothing matches the pattern is skipped
C17_Skip ==
    /\ ResolvedPattern /\ Matching = {} /\ last.in.optional
    /\ last.in.possible_vals = {<<"pca">>}
    /\ last.out.key = sentinel /\ last.out.exc = "none"

----------------------------------------------------------------------------
(* Further properties of backend.save and backend.load, checked under
   SpecBackend *)

\* the declared places of the last save that the source object does not hold
AbsentPlaces ==
    {pl \in Places(last.in.rule) : ValueAt(adata, pl[1], pl[2]) = Absent}

\* the record of the last save holds the source's value for a declared place
Stored(pl) ==
    \E i \in 1..Len(last.out.data) :
        last.out.data[i] = Entry(pl[1], pl[2], ValueAt(adata, pl[1], pl[2]))

\* C15: when a declared key or nested path is absent from a present category
\* of the source that is not optional, save with skip=true warns, omits that
\* entry and writes every other declared entry; with skip=false it fails.
C15_KeyNotFoundOnSave ==
    (/\ last.op = "save" /\ ~IsPatternRule(last.in.rule) /\ ~last.in.optional
     /\ AbsentCategories = {} /\ AbsentPlaces # {}) =>
        IF last.in.skip
        THEN /\ last.out.exc = "none"
             /\ AbsentPlaces \subseteq last.out.warns
             /\ \A i \in 1..Len(last.out.data) :
                    <<last.out.data[i].attr, last.out.data[i].key>> \notin AbsentPlaces
             /\ \A pl \in Places(last.in.rule) \ AbsentPlaces : Stored(pl)
        ELSE last.out.exc # "none"

\* the same when watcher_keys names every declared category and no declared
\* key is a nested path
C15_SingleKeysDeclared ==
    (/\ last.op = "save" /\ last.in.declared
     /\ \A i \in 1..Len(last.in.rule.keys) : last.in.rule.keys[i].t # "tuple")
        => C15_KeyNotFoundOnSave

\* an entry's category is absent on obj and is one whose shape load infers
Inferable(obj, e) == ~hasattr(obj, e.attr) /\ e.attr \in {<<"obsm">>, <<"varm">>}

\* the last operation loaded a file none of whose sentinel entries is fatal
LoadedValues ==
    /\ last.op = "load" /\ last.file.exists /\ Len(last.file.data) > 0
    /\ (last.skip \/ SentinelEntries = {})

\* C18: a load whose every non-sentinel entry meets only missing things on
\* its way (intermediate mappings of its path, or its whole category when
\* that is a per-observation or per-variable table) creates them, completes,
\* and leaves each entry's value at its path.
C18_LoadCreatesMissing ==
    (/\ LoadedValues
     /\ \A e \in ValueEntries : Writable(last.before, e) \/ Inferable(last.before, e)) =>
        /\ last.out.exc = "none"
        /\ \A e \in ValueEntries : ValueAt(adata, e.attr, e.key) = e.val

\* the same when every entry's category exists: only intermediate mappings
\* are missing
C18_IntermediateCreated ==
    (/\ LoadedValues
     /\ \A e \in ValueEntries : Writable(last.before, e)) =>
        /\ last.out.exc = "none"
        /\ \A e \in ValueEntries : ValueAt(adata, e.attr, e.key) = e.val

\* a nested entry was written where its intermediate mapping did not exist
C18_Nested ==
    /\ LoadedValues /\ last.out.exc = "none"
    /\ \E e \in ValueEntries :
          /\ Len(e.key) > 1
          /\ ValueAt(last.before, e.attr, <<e.key[1]>>) = Absent
          /\ ValueAt(adata, e.attr, e.key) = e.val

----------------------------------------------------------------------------
(* Further properties of the caching functions, checked under Spec *)

\* the last call computed, and the save that followed did not write the file
MandatorySaveFailed ==
    /\ Called
    /\ last.out.branch \in {"ForceCompute", "Saved"}
    /\ last.out.saves = 1 /\ last.out.writes = 0

\* C19: whenever the save that follows a fresh computation (after a miss or
\* under force) fails, the call ends in the internal-consistency error and
\* returns no result.
C19_MandatorySave ==
    MandatorySaveFailed =>
        /\ last.out.exc = "AssertionError"
        /\ last.out.ret = RetNone

\* a forced computation whose file could not be opened for writing
C19_Witness ==
    /\ MandatorySaveFailed
    /\ last.out.branch = "ForceCompute" /\ last.out.calls = 1
    /\ last.out.swallowed = "FileNotFoundError"
    /\ last.out.exc = "AssertionError"
    /\ files = [n \in FileNames |-> last.file]

\* the last call was not forced, had call=false and found no loadable cache
MissUncalled ==
    /\ Called /\ ~last.in.force /\ ~last.in.call
    /\ last.out.branch = "Saved"

CopyInEffect == last.in.copy /\ ~last.rule.is_plot

----------------------------------------------------------------------------
(* Properties of failed operations of the backend, checked under SpecBackend *)

\* the last operation was a save that failed while resolving the declared
\* paths
SaveFailed == last.op = "save" /\ last.out.exc # "none"

\* C21: when save fails while resolving the declared paths (a category that
\* is missing and not optional, an ambiguous pattern without hint, a key not
\* found with skip=false), the file under that name is as it was before the
\* save, and the source container is as it was.
C21_FailedSaveKeepsCache ==
    SaveFailed =>
        /\ files[FileName(last.in.rule, NoneKey)] = last.file
        /\ adata = last.before

\* a save that failed for a key not found, over a file that held a record
C21_Witness ==
    /\ SaveFailed
    /\ last.out.exc = "RuntimeError"
    /\ last.file.exists /\ Len(last.file.data) > 0
    /\ files[FileName(last.in.rule, NoneKey)] = last.file

\* the last operation was a load without skip that failed on an entry whose
\* value is the sentinel
LoadFailedOnSentinel ==
    /\ last.op = "load" /\ ~last.skip /\ last.file.exists
    /\ SentinelEntries # {}
    /\ last.out.exc = "RuntimeError"

\* C22: when load fails on an entry whose value is the sentinel (skip=false),
\* the container is as it was before the load: no entry of the file has been
\* written, the entries stored before the sentinel entry included.
C22_FailedLoadLeavesContainer ==
    LoadFailedOnSentinel =>
        /\ adata = last.before
        /\ \A e \in ValueEntries :
              ValueAt(adata, e.attr, e.key) = ValueAt(last.before, e.attr, e.key)

----------------------------------------------------------------------------
(* Properties of the empty record, checked under Spec *)

\* the file the last operation found holds a stored record with no entries
FoundEmptyRecord == last.file.exists /\ last.file.data = <<>>

\* C23: a file that holds a stored record with no entries is a valid cache:
\* a load of it succeeds and leaves the container unchanged, and a call that
\* is not forced counts it as a hit, so that the callback is not invoked and
\* the file is not written again.
C23_EmptyRecordIsValid ==
    /\ (last.op = "load" /\ FoundEmptyRecord) =>
           /\ last.out.exc = "none"
           /\ adata = last.before
    /\ (Called /\ ~last.in.force /\ FoundEmptyRecord) =>
           /\ last.out.loads = 1
           /\ last.out.swallowed = "none"
           /\ last.out.calls = 0
           /\ last.out.branch = "Loaded"

====
